---- MODULE Spec2Model ----
(***************************************************************************)
(* A model of beanprice/sources/alphavantage.py: the ticker parser, the    *)
(* API client (_do_fetch) with its one rate-limit retry, and the two       *)
(* entry points of Source (get_latest_price, get_historical_price).        *)
(*                                                                         *)
(* Strings whose characters the code inspects (tickers, the "Information"  *)
(* text) are sequences of one-character strings.  A decoded JSON object is *)
(* a function from its keys to its values, so `k in data` is               *)
(* k \in DOMAIN data.  A datetime is [day, secs, tz]: a calendar day as a  *)
(* proleptic ordinal, a time of day and a zone; a date key of the daily    *)
(* series ("YYYY-MM-DD") is the day it names.                              *)
(*                                                                         *)
(* The environment is the provider and the host: every response has a body *)
(* that decodes to a JSON object, with a string under "Information" and a  *)
(* "4. close" in every entry of a daily series, and the host passes        *)
(* timezone-aware instants.  One call runs at a time; a GET and the        *)
(* arrival of its response are separate steps.                             *)
(***************************************************************************)
EXTENDS Integers, Sequences, FiniteSets, TLC

VARIABLES
    environ,    \* os.environ, as far as the code reads it
    pc,         \* "idle", "get1" / "get2" (a GET is awaiting its response), "done"
    op,         \* the entry point being run
    ticker,     \* its ticker argument
    reqTime,    \* its time argument, as passed
    groups,     \* kind, symbol, base as parsed
    params,     \* the params dict handed to requests.get
    log,        \* the GETs issued, the responses received and the sleeps, in order
    resp,       \* the response _do_fetch ends with (the one its checks read)
    fetched,    \* how _do_fetch ended
    result      \* how the entry point ended

vars == <<environ, pc, op, ticker, reqTime, groups, params, log, resp, fetched, result>>

(***************************************************************************)
(* Bounds and program constants                                            *)
(***************************************************************************)
\* Calendar days the requested instants and the series keys are drawn from.
MaxDay == 3

\* date.min.toordinal(): subtracting a day below it raises OverflowError.
DateMinOrdinal == 1

\* timedelta(days=130)
OutputSizeCutoffDays == 130

\* sleep(60)
SleepSeconds == 60

\* requests.codes.ok
StatusOk == 200

Days == DateMinOrdinal..MaxDay

\* The status codes a response may carry: ok, another 2xx, a client error.
StatusCodes == {StatusOk, 201, 404}

UTC == "UTC"

\* datetime.now(timezone.utc) at the time of the calls.
Now == [day |-> DateMinOrdinal + OutputSizeCutoffDays + 1, secs |-> 0, tz |-> UTC]

\* The instants a caller asks about (timezone-aware, as the host passes them).
Instants == [day : Days, secs : {0, 43200}, tz : {UTC}]

(***************************************************************************)
(* Characters and strings                                                  *)
(***************************************************************************)
UpperCase == <<"A","B","C","D","E","F","G","H","I","J","K","L","M",
               "N","O","P","Q","R","S","T","U","V","W","X","Y","Z">>

LowerCase == <<"a","b","c","d","e","f","g","h","i","j","k","l","m",
               "n","o","p","q","r","s","t","u","v","w","x","y","z">>

Digits == {"0","1","2","3","4","5","6","7","8","9"}

Range(s) == {s[i] : i \in DOMAIN s}

\* The characters \w matches (of the characters the model uses).
WordChars == Range(UpperCase) \cup Range(LowerCase) \cup Digits \cup {"_"}

\* str.lower(), one character
LowerChar(c) ==
    IF \E i \in DOMAIN UpperCase : UpperCase[i] = c
    THEN LowerCase[CHOOSE i \in DOMAIN UpperCase : UpperCase[i] = c]
    ELSE c

\* str.lower()
Lower(s) == [i \in DOMAIN s |-> LowerChar(s[i])]

\* needle in hay, for strings
Contains(needle, hay) ==
    \E i \in 0..(Len(hay) - Len(needle)) :
        SubSeq(hay, i + 1, i + Len(needle)) = needle

StartsWith(s, prefix) ==
    /\ Len(s) >= Len(prefix)
    /\ SubSeq(s, 1, Len(prefix)) = prefix

(***************************************************************************)
(* Ticker parser                                                           *)
(***************************************************************************)
price == <<"p","r","i","c","e">>

fx == <<"f","x">>

NL == "\n"

\* The length of the longest prefix of s made of characters of `chars`.
PrefixLen(s, chars) ==
    IF \E i \in DOMAIN s : s[i] \notin chars
    THEN (CHOOSE i \in DOMAIN s :
             /\ s[i] \notin chars
             /\ \A j \in 1..(i - 1) : s[j] \in chars) - 1
    ELSE Len(s)

\* (?P<kind>price|fx): the alternative that matches at the start, or <<>>.
MatchKind(t) ==
    IF StartsWith(t, price) THEN price
    ELSE IF StartsWith(t, fx) THEN fx
    ELSE <<>>

\* $ : at the end of the string, or just before a newline that ends it.
AtDollar(s, pos) ==
    \/ pos = Len(s) + 1
    \/ pos = Len(s) /\ s[pos] = NL

\* re.match(r"^(?P<kind>price|fx):(?P<symbol>[^:]+):(?P<base>\w+)$", ticker):
\* the groups of the match, or <<>> when there is none.  Each repetition is
\* greedy and what follows it excludes every shorter choice, so the match
\* is decided by the longest runs.
ReMatch(t) ==
    LET kind == MatchKind(t)
        r1   == SubSeq(t, Len(kind) + 1, Len(t))
        r2   == SubSeq(r1, 2, Len(r1))
        nsym == PrefixLen(r2, Range(r2) \ {":"})
        sym  == SubSeq(r2, 1, nsym)
        r3   == SubSeq(r2, nsym + 1, Len(r2))
        r4   == SubSeq(r3, 2, Len(r3))
        nbas == PrefixLen(r4, WordChars)
        base == SubSeq(r4, 1, nbas)
    IN  IF /\ kind # <<>>
           /\ r1 # <<>> /\ r1[1] = ":"
           /\ nsym >= 1
           /\ r3 # <<>> /\ r3[1] = ":"
           /\ nbas >= 1
           /\ AtDollar(r4, nbas + 1)
        THEN <<kind, sym, base>>
        ELSE <<>>

Return(v) == [kind |-> "return", value |-> v]

RaiseValueError == [kind |-> "raise", exc |-> "ValueError"]

\* _parse_ticker: the groups, or the ValueError.
ParseTicker(t) ==
    LET match == ReMatch(t)
    IN  IF match = <<>> THEN RaiseValueError ELSE Return(match)

\* kind:symbol:base
MkTicker(kind, symbol, base) == kind \o <<":">> \o symbol \o <<":">> \o base

IBM == <<"I","B","M">>

USD == <<"U","S","D">>

CHF == <<"C","H","F">>

\* Tickers built from the grammar.
GoodTickers ==
    { MkTicker(price, IBM, USD),
      MkTicker(price, <<"B","R","K",".","B">>, <<"U","S","_","1">>),
      MkTicker(fx, USD, CHF) }

\* Strings outside the grammar.
BadTickers ==
    { <<"I","N","V","A","L","I","D">>,
      <<>>,
      MkTicker(price, <<>>, USD),
      MkTicker(price, IBM, <<>>),
      price \o <<":">> \o IBM,
      MkTicker(<<"b","o","n","d">>, IBM, USD),
      MkTicker(<<"P","r","i","c","e">>, IBM, USD),
      MkTicker(fx \o <<"x">>, USD, CHF),
      MkTicker(price, IBM, <<"U","S","-","D">>),
      MkTicker(price, <<"I",":","B">>, USD),
      MkTicker(fx, USD, CHF) \o <<":">>,
      <<" ">> \o MkTicker(price, IBM, USD),
      MkTicker(price, IBM, USD) \o <<NL>>,
      MkTicker(fx, USD, CHF) \o <<NL>>,
      MkTicker(price, IBM, USD) \o <<NL, NL>>,
      MkTicker(price, IBM, USD) \o <<" ">> }

Tickers == GoodTickers \cup BadTickers

(***************************************************************************)
(* Values                                                                  *)
(***************************************************************************)
\* Python's None.
None == [type |-> "NoneType"]

\* Decimal(s) of a decimal literal (kept as its number of cents).
Decimal(s) == [decimal |-> s.literal]

\* source.SourcePrice(price, time, quote_currency)
SourcePrice(p, t, q) == [price |-> p, time |-> t, quote_currency |-> q]

Pending == [kind |-> "pending"]

\* environ without and with ALPHAVANTAGE_API_KEY.
NoKeyEnv == <<>>

KeyEnv == "ALPHAVANTAGE_API_KEY" :> "foo"

RaiseKeyError(k) == [kind |-> "raise", exc |-> "KeyError", key |-> k]

RaiseOverflowError == [kind |-> "raise", exc |-> "OverflowError"]

\* AlphavantageApiError("Invalid response ({}): {}".format(status_code, text))
RaiseTransport(status_code, text) ==
    [kind |-> "raise", exc |-> "AlphavantageApiError",
     format |-> "Invalid response ({}): {}",
     status_code |-> status_code, text |-> text]

\* AlphavantageApiError("Invalid response: {}".format(message))
RaiseApplication(message) ==
    [kind |-> "raise", exc |-> "AlphavantageApiError",
     format |-> "Invalid response: {}", message |-> message]

(***************************************************************************)
(* What the provider may answer                                            *)
(***************************************************************************)
premium_endpoint ==
    <<"p","r","e","m","i","u","m"," ","e","n","d","p","o","i","n","t">>

\* Values of the "Information" field: the premium notice as the provider
\* capitalises it, and a notice about something else.
InformationTexts ==
    { <<"A"," ","P","r","e","m","i","u","m"," ","E","n","d","p","o","i","n","t">>,
      <<"D","a","i","l","y"," ","l","i","m","i","t">> }

\* The close of day d in a daily series, a decimal literal.
CloseOf(d) == [literal |-> 22000 + d]

\* "Time Series (Daily)": one entry per day of S.
DailySeries(S) == [d \in S |-> ("4. close" :> CloseOf(d))]

GlobalQuote ==
    ("05. price" :> [literal |-> 14474]) @@ ("07. latest trading day" :> MaxDay)

ExchangeRate ==
    ("5. Exchange Rate" :> [literal |-> 10894])
    @@ ("6. Last Refreshed" :> [day |-> MaxDay, secs |-> 73945])
    @@ ("7. Time Zone" :> UTC)

\* The payload proper of a body: none, or one of the three shapes.
Payloads ==
    {<<>>,
     "Global Quote" :> GlobalQuote,
     "Realtime Currency Exchange Rate" :> ExchangeRate}
    \cup { "Time Series (Daily)" :> DailySeries(S) : S \in SUBSET Days }

Notes == {<<>>, "Note" :> "Thank you for using Alpha Vantage!"}

ErrorMessages == {<<>>, "Error Message" :> "Something wrong"}

Informations == {<<>>} \cup { "Information" :> i : i \in InformationTexts }

\* The decoded JSON objects.
Bodies ==
    { n @@ e @@ i @@ p :
        n \in Notes, e \in ErrorMessages, i \in Informations, p \in Payloads }

\* A response: its status and its raw text (the JSON object it encodes).
Responses == [status_code : StatusCodes, text : [raw : Bodies]]

\* resp.json()
Json(r) == r.text.raw

(***************************************************************************)
(* datetime                                                                *)
(***************************************************************************)
\* time.strftime("%Y-%m-%d"): the calendar day of the instant, as a series key.
DateKey(t) == t.day

\* t - timedelta(days=n)
MinusDays(t, n) == [t EXCEPT !.day = @ - n]

\* a < b, for aware datetimes of the same zone
Before(a, b) == a.day < b.day \/ (a.day = b.day /\ a.secs < b.secs)

\* parse(s).replace(tzinfo=zone) of a calendar date: midnight of that day.
ParseDate(day, zone) == [day |-> day, secs |-> 0, tz |-> zone]

\* parse(s).replace(tzinfo=zone) of a full timestamp.
ParseTimestamp(ts, zone) == [day |-> ts.day, secs |-> ts.secs, tz |-> zone]

(***************************************************************************)
(* API client: _do_fetch                                                   *)
(***************************************************************************)
Get(p) == [ev |-> "GET", url |-> "https://www.alphavantage.co/query", params |-> p]

\* A response as the log keeps it: its status, and whether its body has "Note".
Got(r) ==
    [ev |-> "response", status_code |-> r.status_code,
     note |-> "Note" \in DOMAIN r.text.raw]

Slept(n) == [ev |-> "sleep", seconds |-> n]

\* A variant that looks for the notice under another key.
RateLimitedUnderInformation(data) == "Information" \in DOMAIN data

\* "Note" in data
RateLimited(data) == "Note" \in DOMAIN data

\* A variant that fails server errors only.
StatusFailsServerErrorsOnly(r) == r.status_code >= 500

\* The status check of the response in hand.
StatusFails(r) == r.status_code # StatusOk

\* "Error Message" in data
HasErrorMessage(data) == "Error Message" \in DOMAIN data

\* A variant without the check of the error message.
CheckResponseStatusOnly(r) ==
    IF StatusFails(r)
    THEN RaiseTransport(r.status_code, r.text)
    ELSE Return(Json(r))

\* A variant that treats a note that is still there as an error.
CheckResponseNoteIsError(r) ==
    LET data == Json(r)
    IN  IF StatusFails(r)
        THEN RaiseTransport(r.status_code, r.text)
        ELSE IF HasErrorMessage(data)
        THEN RaiseApplication(data["Error Message"])
        ELSE IF RateLimited(data)
        THEN RaiseApplication(data["Note"])
        ELSE Return(data)

\* The end of _do_fetch, once the response it keeps is in hand.
CheckResponse(r) ==
    LET data == Json(r)
    IN  IF StatusFails(r)
        THEN RaiseTransport(r.status_code, r.text)
        ELSE IF HasErrorMessage(data)
        THEN RaiseApplication(data["Error Message"])
        ELSE Return(data)

(***************************************************************************)
(* Normalisation of the payload, per entry point                           *)
(***************************************************************************)
\* get_latest_price, kind = "price"
LatestQuote(data, base) ==
    IF "Global Quote" \notin DOMAIN data
    THEN RaiseKeyError("Global Quote")
    ELSE LET price_data == data["Global Quote"]
         IN  Return(SourcePrice(Decimal(price_data["05. price"]),
                                ParseDate(price_data["07. latest trading day"], UTC),
                                base))

\* get_latest_price, kind = "fx"
LatestRate(data, base) ==
    IF "Realtime Currency Exchange Rate" \notin DOMAIN data
    THEN RaiseKeyError("Realtime Currency Exchange Rate")
    ELSE LET price_data == data["Realtime Currency Exchange Rate"]
         IN  Return(SourcePrice(Decimal(price_data["5. Exchange Rate"]),
                                ParseTimestamp(price_data["6. Last Refreshed"],
                                               price_data["7. Time Zone"]),
                                base))

\* param_output_size
OutputSize(time) ==
    IF Before(time, MinusDays(Now, OutputSizeCutoffDays)) THEN "full" ELSE "compact"

\* A variant that compares without lower().
PremiumRequiredCaseSensitive(data) ==
    /\ "Information" \in DOMAIN data
    /\ Contains(premium_endpoint, data["Information"])

\* "Information" in data and "premium endpoint" in data["Information"].lower()
PremiumRequired(data) ==
    /\ "Information" \in DOMAIN data
    /\ Contains(premium_endpoint, Lower(data["Information"]))

\* A variant without the loop: the day asked for, or nothing.
WalkBackNotAtAll(time, price_data) ==
    IF DateKey(time) \in DOMAIN price_data
    THEN [found |-> TRUE, time |-> time]
    ELSE [found |-> FALSE]

\* while time.strftime("%Y-%m-%d") not in price_data: time -= timedelta(days=1)
\* The time the loop ends with, or the OverflowError of the subtraction that
\* would leave the range of datetime.
RECURSIVE WalkBack(_, _)
WalkBack(time, price_data) ==
    IF DateKey(time) \in DOMAIN price_data
    THEN [found |-> TRUE, time |-> time]
    ELSE IF time.day - 1 < DateMinOrdinal
    THEN [found |-> FALSE]
    ELSE WalkBack(MinusDays(time, 1), price_data)

\* A variant that stamps the price with the instant as first passed.
DayPriceAtRequestedTime(price_data, time, base) ==
    LET day_data == price_data[DateKey(time)]
    IN  SourcePrice(Decimal(day_data["4. close"]), reqTime, base)

\* The SourcePrice built once the loop has ended at `time`.
DayPrice(price_data, time, base) ==
    LET day_data == price_data[DateKey(time)]
    IN  SourcePrice(Decimal(day_data["4. close"]), time, base)

\* get_historical_price, from the payload on
Historical(data, time, base) ==
    IF PremiumRequired(data)
    THEN Return(None)
    ELSE IF "Time Series (Daily)" \in DOMAIN data
    THEN LET price_data == data["Time Series (Daily)"]
             walk == WalkBack(time, price_data)
         IN  IF walk.found
             THEN Return(DayPrice(price_data, walk.time, base))
             ELSE RaiseOverflowError
    ELSE Return(None)

\* What the entry point does with the outcome of _do_fetch.
Normalise(outcome) ==
    IF outcome.kind = "raise"
    THEN outcome
    ELSE IF op = "get_latest_price"
    THEN IF groups[1] = price
         THEN LatestQuote(outcome.value, groups[3])
         ELSE LatestRate(outcome.value, groups[3])
    ELSE Historical(outcome.value, reqTime, groups[3])

(***************************************************************************)
(* Entry points                                                            *)
(***************************************************************************)
QuoteParams(symbol) ==
    ("function" :> "GLOBAL_QUOTE") @@ ("symbol" :> symbol)

RateParams(symbol, base) ==
    ("function" :> "CURRENCY_EXCHANGE_RATE")
    @@ ("from_currency" :> symbol) @@ ("to_currency" :> base)

SeriesParams(symbol, size) ==
    ("function" :> "TIME_SERIES_DAILY") @@ ("symbol" :> symbol)
    @@ ("outputSize" :> size)

\* params["apikey"] = environ["ALPHAVANTAGE_API_KEY"]
WithKey(p) == ("apikey" :> environ["ALPHAVANTAGE_API_KEY"]) @@ p

\* The call ends here, with outcome r of the entry point.
Ends(r) ==
    /\ pc' = "done"
    /\ result' = r

\* A variant that reads the key with environ.get and sends what it has.
BeginFetchAnonymous(p) ==
    /\ params' = IF "ALPHAVANTAGE_API_KEY" \in DOMAIN environ THEN WithKey(p) ELSE p
    /\ log' = <<Get(params')>>
    /\ pc' = "get1"
    /\ UNCHANGED <<resp, fetched, result>>

\* _do_fetch(p), up to its first GET: the KeyError of the missing key, or
\* the request on its way.
BeginFetch(p) ==
    IF "ALPHAVANTAGE_API_KEY" \notin DOMAIN environ
    THEN /\ fetched' = RaiseKeyError("ALPHAVANTAGE_API_KEY")
         /\ Ends(fetched')
         /\ UNCHANGED <<params, log, resp>>
    ELSE /\ params' = WithKey(p)
         /\ log' = <<Get(params')>>
         /\ pc' = "get1"
         /\ UNCHANGED <<resp, fetched, result>>

\* _do_fetch has the response it keeps: its checks, then the caller's
\* normalisation of what it returns.
EndFetch(r) ==
    /\ resp' = r
    /\ fetched' = CheckResponse(r)
    /\ Ends(Normalise(fetched'))

Init ==
    /\ environ \in {NoKeyEnv, KeyEnv}
    /\ pc = "idle"
    /\ op = "none"
    /\ ticker = <<>>
    /\ reqTime = None
    /\ groups = <<>>
    /\ params = <<>>
    /\ log = <<>>
    /\ resp = None
    /\ fetched = Pending
    /\ result = Pending

\* environ["ALPHAVANTAGE_API_KEY"] = "foo"
SetKey ==
    /\ pc = "idle"
    /\ environ' = KeyEnv
    /\ UNCHANGED <<pc, op, ticker, reqTime, groups, params, log, resp, fetched, result>>

\* del environ["ALPHAVANTAGE_API_KEY"]
DelKey ==
    /\ pc = "idle"
    /\ "ALPHAVANTAGE_API_KEY" \in DOMAIN environ
    /\ environ' = NoKeyEnv
    /\ UNCHANGED <<pc, op, ticker, reqTime, groups, params, log, resp, fetched, result>>

\* Source.get_latest_price(ticker), up to the first GET
GetLatestPrice(t) ==
    /\ pc = "idle"
    /\ op' = "get_latest_price"
    /\ ticker' = t
    /\ UNCHANGED <<environ, reqTime>>
    /\ LET parsed == ParseTicker(t)
       IN  IF parsed.kind = "raise"
           THEN /\ Ends(parsed)
                /\ UNCHANGED <<groups, params, log, resp, fetched>>
           ELSE /\ groups' = parsed.value
                /\ IF groups'[1] = price
                   THEN BeginFetch(QuoteParams(groups'[2]))
                   ELSE BeginFetch(RateParams(groups'[2], groups'[3]))

\* A variant that fetches before it looks at the kind.
GetHistoricalPriceFetchFirst(t, time) ==
    /\ pc = "idle"
    /\ op' = "get_historical_price"
    /\ ticker' = t
    /\ reqTime' = time
    /\ UNCHANGED environ
    /\ LET parsed == ParseTicker(t)
       IN  IF parsed.kind = "raise"
           THEN /\ Ends(parsed)
                /\ UNCHANGED <<groups, params, log, resp, fetched>>
           ELSE /\ groups' = parsed.value
                /\ BeginFetch(SeriesParams(groups'[2], OutputSize(time)))

\* Source.get_historical_price(ticker, time), up to the first GET
GetHistoricalPrice(t, time) ==
    /\ pc = "idle"
    /\ op' = "get_historical_price"
    /\ ticker' = t
    /\ reqTime' = time
    /\ UNCHANGED environ
    /\ LET parsed == ParseTicker(t)
       IN  IF parsed.kind = "raise"
           THEN /\ Ends(parsed)
                /\ UNCHANGED <<groups, params, log, resp, fetched>>
           ELSE /\ groups' = parsed.value
                /\ IF groups'[1] = price
                   THEN BeginFetch(SeriesParams(groups'[2], OutputSize(time)))
                   ELSE /\ Ends(Return(None))
                        /\ UNCHANGED <<params, log, resp, fetched>>

\* The response to the first GET arrives: with the rate-limit note in it,
\* sleep and issue the GET again; otherwise go on with this response.
FirstResponse(r) ==
    /\ pc = "get1"
    /\ UNCHANGED <<environ, op, ticker, reqTime, groups, params>>
    /\ IF RateLimited(Json(r))
       THEN /\ log' = log \o <<Got(r), Slept(SleepSeconds), Get(params)>>
            /\ pc' = "get2"
            /\ UNCHANGED <<resp, fetched, result>>
       ELSE /\ log' = Append(log, Got(r))
            /\ EndFetch(r)

\* The response to the second GET arrives.
SecondResponse(r) ==
    /\ pc = "get2"
    /\ UNCHANGED <<environ, op, ticker, reqTime, groups, params>>
    /\ log' = Append(log, Got(r))
    /\ EndFetch(r)

\* The caller has the outcome; nothing of the call is kept.
Finish ==
    /\ pc = "done"
    /\ pc' = "idle"
    /\ op' = "none"
    /\ ticker' = <<>>
    /\ reqTime' = None
    /\ groups' = <<>>
    /\ params' = <<>>
    /\ log' = <<>>
    /\ resp' = None
    /\ fetched' = Pending
    /\ result' = Pending
    /\ UNCHANGED environ

Next ==
    \/ SetKey
    \/ DelKey
    \/ \E t \in Tickers : GetLatestPrice(t)
    \/ \E t \in Tickers, time \in Instants : GetHistoricalPrice(t, time)
    \/ \E r \in Responses : FirstResponse(r)
    \/ \E r \in Responses : SecondResponse(r)
    \/ Finish

Spec == Init /\ [][Next]_vars

(***************************************************************************)
(* Vocabulary of the properties                                            *)
(***************************************************************************)
ApiKeyName == "ALPHAVANTAGE_API_KEY"

Events(kind) == SelectSeq(log, LAMBDA e : e.ev = kind)

NumGets == Len(Events("GET"))

NumSleeps == Len(Events("sleep"))

\* _do_fetch ran to its checks in this call, and the call is over.
Fetched == pc = "done" /\ resp # None

\* This call retried: its log is GET, response, sleep, GET, response.
Retried == Fetched /\ Len(log) = 5

\* The body of the response _do_fetch ended with.
FinalBody == resp.text.raw

IsHistoricalPriceCall ==
    /\ op = "get_historical_price"
    /\ groups # <<>>
    /\ groups[1] = price

\* The keys of the daily series of the final body that are on or before day d.
OnOrBefore(d) == { k \in DOMAIN FinalBody["Time Series (Daily)"] : k <= d }

Max(S) == CHOOSE x \in S : \A y \in S : y <= x

\* The Information texts that mention a premium endpoint, in any case.
PremiumTexts ==
    { i \in InformationTexts :
        \E k \in 0..(Len(i) - Len(premium_endpoint)) :
            \A j \in 1..Len(premium_endpoint) :
                LowerChar(i[k + j]) = premium_endpoint[j] }

\* The strings of the grammar (price|fx):<non-colon symbol>:<word base>.
InGrammar(t) ==
    \E i, j \in DOMAIN t :
        /\ i < j
        /\ t[i] = ":" /\ t[j] = ":"
        /\ SubSeq(t, 1, i - 1) \in {price, fx}
        /\ j > i + 1
        /\ \A k \in (i + 1)..(j - 1) : t[k] # ":"
        /\ j < Len(t)
        /\ \A k \in (j + 1)..Len(t) : t[k] \in WordChars

\* The components of a string of the grammar.
Components(t) ==
    LET i == CHOOSE i \in DOMAIN t : t[i] = ":" /\ \A k \in 1..(i - 1) : t[k] # ":"
        j == CHOOSE j \in DOMAIN t : t[j] = ":" /\ j > i
    IN  <<SubSeq(t, 1, i - 1), SubSeq(t, i + 1, j - 1), SubSeq(t, j + 1, Len(t))>>

(***************************************************************************)
(* C1.  _do_fetch issues one GET when the first decoded body has no        *)
(* "Note"; when it has one, whatever the status of that response, it       *)
(* sleeps 60 seconds and issues the same request with the same parameters  *)
(* exactly once more.  It never issues more than two GETs, and the sleep   *)
(* lies between the first GET and the second.                              *)
(***************************************************************************)
C1_OneRetryAfterNote ==
    /\ NumGets <= 2
    /\ NumSleeps <= 1
    /\ pc = "get1" => log = <<Get(params)>>
    /\ pc = "get2" =>
          /\ Len(log) = 4
          /\ log[1] = Get(params)
          /\ log[2].ev = "response" /\ log[2].note
          /\ log[3] = Slept(60)
          /\ log[4] = log[1]
    /\ Fetched =>
          /\ log[1] = Get(params)
          /\ log[2].ev = "response"
          /\ IF log[2].note
             THEN /\ Len(log) = 5
                  /\ log[3] = Slept(60)
                  /\ log[4] = log[1]
                  /\ log[5].ev = "response"
             ELSE Len(log) = 2

\* A retry after a first response that was not a 200 but carried the note.
C1_Witness ==
    /\ Retried
    /\ log[2].status_code = 404
    /\ log[3].ev = "sleep"
    /\ NumGets = 2

(***************************************************************************)
(* C2.  As claimed: an "Error Message" field in the body of the final      *)
(* response makes _do_fetch fail with the application error carrying the   *)
(* provider's message, whatever the status of that response.               *)
(***************************************************************************)
C2_Claimed ==
    (Fetched /\ "Error Message" \in DOMAIN FinalBody)
        => fetched = RaiseApplication(FinalBody["Error Message"])

(***************************************************************************)
(* C2, amended.  An "Error Message" field in the body of the final         *)
(* response always makes _do_fetch fail with an AlphavantageApiError: with *)
(* status 200 the application error carrying the provider's message, with  *)
(* any other status the transport error carrying the status and the body   *)
(* text.                                                                   *)
(***************************************************************************)
C2_ErrorMessageFails ==
    (Fetched /\ "Error Message" \in DOMAIN FinalBody) =>
        /\ fetched.kind = "raise"
        /\ fetched.exc = "AlphavantageApiError"
        /\ result = fetched
        /\ IF resp.status_code = 200
           THEN fetched = RaiseApplication(FinalBody["Error Message"])
           ELSE fetched = RaiseTransport(resp.status_code, resp.text)

\* The application error is raised, after a retry.
C2_Witness ==
    /\ Retried
    /\ "Error Message" \in DOMAIN FinalBody
    /\ fetched = RaiseApplication("Something wrong")

(***************************************************************************)
(* C3.  As claimed: a historical price found by stepping back from a date  *)
(* absent from the series carries the originally requested instant as its  *)
(* timestamp and the ticker's base as quote currency; with the date        *)
(* present the timestamp's date is the requested date.                     *)
(***************************************************************************)
C3_Claimed ==
    (IsHistoricalPriceCall /\ Fetched /\ result.kind = "return" /\ result.value # None)
        => /\ result.value.quote_currency = groups[3]
           /\ IF reqTime.day \in DOMAIN FinalBody["Time Series (Daily)"]
              THEN result.value.time.day = reqTime.day
              ELSE result.value.time = reqTime

(***************************************************************************)
(* C3, amended.  The record carries the ticker's base as quote currency    *)
(* and, as timestamp, the requested instant moved back by whole days to    *)
(* the matched day (same time of day, same zone): the requested instant    *)
(* itself when its date is in the series, an earlier day that is a key of  *)
(* the series otherwise.                                                   *)
(***************************************************************************)
C3_TimestampIsMatchedDay ==
    (IsHistoricalPriceCall /\ Fetched /\ result.kind = "return" /\ result.value # None)
        => LET series == FinalBody["Time Series (Daily)"]
               stamp  == result.value.time
           IN  /\ result.value.quote_currency = groups[3]
               /\ stamp.secs = reqTime.secs
               /\ stamp.tz = reqTime.tz
               /\ stamp.day \in DOMAIN series
               /\ IF reqTime.day \in DOMAIN series
                  THEN stamp = reqTime
                  ELSE stamp.day < reqTime.day

\* A price found on an earlier day than the one asked for.
C3_Witness ==
    /\ IsHistoricalPriceCall
    /\ Fetched
    /\ result.kind = "return"
    /\ result.value # None
    /\ reqTime.day \notin DOMAIN FinalBody["Time Series (Daily)"]
    /\ result.value.time.day = reqTime.day - 2
    /\ result.value.quote_currency = USD

(***************************************************************************)
(* C4.  With a daily series that has a key on or before the requested      *)
(* date, the walk back ends and the price returned is the close of the     *)
(* latest key on or before that date: never a later one, and never an      *)
(* error for the date being absent.                                        *)
(***************************************************************************)
C4_NearestEarlierClose ==
    (/\ IsHistoricalPriceCall
     /\ Fetched
     /\ fetched.kind = "return"
     /\ ~("Information" \in DOMAIN FinalBody /\ FinalBody["Information"] \in PremiumTexts)
     /\ "Time Series (Daily)" \in DOMAIN FinalBody
     /\ OnOrBefore(reqTime.day) # {})
        => /\ result.kind = "return"
           /\ result.value # None
           /\ result.value.price = [decimal |-> 22000 + Max(OnOrBefore(reqTime.day))]

\* The requested day is absent, a later day and an earlier day are present.
C4_Witness ==
    /\ IsHistoricalPriceCall
    /\ Fetched
    /\ result.kind = "return"
    /\ result.value # None
    /\ reqTime.day = 2
    /\ DOMAIN FinalBody["Time Series (Daily)"] = {1, 3}
    /\ result.value.price = [decimal |-> 22001]

(***************************************************************************)
(* C5.  When the retried response has the note again, _do_fetch neither    *)
(* sleeps nor requests again and does not raise for the note: it returns   *)
(* that payload as it is.                                                  *)
(***************************************************************************)
C5_NoteAgainIsData ==
    (Retried /\ "Note" \in DOMAIN FinalBody) =>
        /\ NumGets = 2
        /\ NumSleeps = 1
        /\ fetched.kind = "raise" =>
              \/ resp.status_code # 200
              \/ "Error Message" \in DOMAIN FinalBody
        /\ (resp.status_code = 200 /\ "Error Message" \notin DOMAIN FinalBody)
              => fetched = Return(FinalBody)

\* The rate-limited payload of the second response is what _do_fetch returns.
C5_Witness ==
    /\ Retried
    /\ "Note" \in DOMAIN FinalBody
    /\ fetched.kind = "return"
    /\ "Note" \in DOMAIN fetched.value

C7_HistoricalFxIsNone ==
    (op = "get_historical_price" /\ groups # <<>> /\ groups[1] = fx) =>
        /\ pc = "done"
        /\ result = Return(None)
        /\ log = <<>>
        /\ fetched = Pending

\* fx:USD:CHF asked for a historical price, with the API key set.
C7_Witness ==
    /\ op = "get_historical_price"
    /\ ticker = MkTicker(fx, USD, CHF)
    /\ ApiKeyName \in DOMAIN environ
    /\ result = Return(None)

(***************************************************************************)
(* C8.  In get_historical_price for a price ticker, a payload with an      *)
(* "Information" field that mentions a premium endpoint, or one without    *)
(* the "Time Series (Daily)" key, gives None and no error.                 *)
(***************************************************************************)
C8_NoSeriesIsNone ==
    (/\ IsHistoricalPriceCall
     /\ Fetched
     /\ fetched.kind = "return"
     /\ \/ "Information" \in DOMAIN fetched.value
           /\ fetched.value["Information"] \in PremiumTexts
        \/ "Time Series (Daily)" \notin DOMAIN fetched.value)
        => result = Return(None)

\* The premium notice comes with a series that has the requested day.
C8_Witness ==
    /\ IsHistoricalPriceCall
    /\ Fetched
    /\ fetched.kind = "return"
    /\ "Information" \in DOMAIN fetched.value
    /\ fetched.value["Information"] \in PremiumTexts
    /\ "Time Series (Daily)" \in DOMAIN fetched.value
    /\ reqTime.day \in DOMAIN fetched.value["Time Series (Daily)"]
    /\ result = Return(None)

(***************************************************************************)
(* C9.  Without the API key in the environment, a call that reaches the    *)
(* API client fails with the KeyError before any GET; no GET is ever       *)
(* issued without the apikey parameter.                                    *)
(***************************************************************************)
C9_NoKeyNoRequest ==
    /\ \A i \in DOMAIN log :
          log[i].ev = "GET" => /\ "apikey" \in DOMAIN log[i].params
                               /\ ApiKeyName \in DOMAIN environ
                               /\ log[i].params["apikey"] = environ[ApiKeyName]
    /\ (/\ ApiKeyName \notin DOMAIN environ
        /\ groups # <<>>
        /\ op = "get_latest_price" \/ groups[1] = price)
          => /\ pc = "done"
             /\ log = <<>>
             /\ fetched = [kind |-> "raise", exc |-> "KeyError", key |-> ApiKeyName]
             /\ result = fetched

\* A latest-price call for an fx ticker without the key.
C9_Witness ==
    /\ ApiKeyName \notin DOMAIN environ
    /\ op = "get_latest_price"
    /\ groups # <<>>
    /\ groups[1] = fx
    /\ result.kind = "raise"
    /\ result.exc = "KeyError"

(***************************************************************************)
(* C10.  As claimed: for every ticker string outside the grammar           *)
(* (price|fx):<non-colon symbol>:<word base> both entry points fail with   *)
(* the parser's ValueError, with no GET and no sleep; for every string of  *)
(* the grammar the parser returns exactly its three components.            *)
(***************************************************************************)
C10_Claimed ==
    pc # "idle" =>
        IF InGrammar(ticker)
        THEN groups = Components(ticker)
        ELSE /\ pc = "done"
             /\ result = [kind |-> "raise", exc |-> "ValueError"]
             /\ log = <<>>

====
